---- MODULE Spec2Model ----
(***************************************************************************)
(* State-machine model of obsidian-rs: the vault walk (data.rs), the cache *)
(* stubs (data.rs), the front-matter extractor (data.rs) and the watch     *)
(* loop with its callbacks (main.rs, watcher.rs).                          *)
(*                                                                         *)
(* A path is a sequence of names, a name is a sequence of one-character    *)
(* strings, so that starts_with(".") is computed on the name itself.       *)
(***************************************************************************)
EXTENDS Integers, Sequences, FiniteSets, TLC

\* Bound: the number of notifications the watcher thread sends in one run.
MaxEvents == 2

----------------------------------------------------------------------------
\* The vault tree the model walks and watches.

VaultRoot == << <<"v">> >>
P_a  == VaultRoot \o << <<"a">> >>
P_h  == VaultRoot \o << <<".", "h">> >>
P_s  == VaultRoot \o << <<"s">> >>
P_sb == P_s \o << <<"b">> >>
P_g  == VaultRoot \o << <<".", "g">> >>
P_gc == P_g \o << <<"c">> >>

SubDirs   == {P_s, P_g}
FilePaths == {P_a, P_h, P_sb, P_gc}

\* The order in which the directory iterator yields a directory's entries.
ReadDir(d) ==
    IF d = VaultRoot THEN <<P_a, P_h, P_s, P_g>>
    ELSE IF d = P_s THEN <<P_sb>>
    ELSE IF d = P_g THEN <<P_gc>>
    ELSE <<>>

----------------------------------------------------------------------------
\* File contents: sequences of lines.

Plain    == <<"body">>
Good     == <<"---", "title: Alpha", "---", "body">>
Unclosed == <<"---", "title: Alpha", "body">>
BadYaml  == <<"---", ": {", " --- ">>

Contents == {Plain, Good, Unclosed, BadYaml}

\* What an editor writes while the engine watches.
Written == {BadYaml}

----------------------------------------------------------------------------
VARIABLES
    root,        \* what the vault root path names: "dir", "file" or "missing"
    files,       \* the regular files present: path -> content
    cache,       \* the caching database: key -> record
    extractCalls,\* number of parse_yaml_front_matter calls issued so far
    pc,          \* the engine's position
    nodes,       \* the Vec<PathBuf> traverse_vault returned
    ops,         \* the cache calls invalidate_cache made, in order
    chan,        \* the mpsc channel: items sent and not yet received
    sent,        \* number of items the watcher thread has sent
    closed,      \* the sending half of the channel has been dropped
    log,         \* the lines logged by the latest iteration of the loop
    result,      \* what the engine's entry point returned
    last,        \* history of the latest iteration: item, tokens, cache before
    call         \* a library function called on its own: arguments and result

vars == <<call, root, files, cache, extractCalls, pc, nodes, ops, chan,
          sent, closed, log, result, last>>

----------------------------------------------------------------------------
\* data.rs: the walk.

file_name(path) == path[Len(path)]

\* entry.file_name().to_str().map(|s| s.starts_with(".")).unwrap_or(false)
is_hidden(entry) ==
    LET s == file_name(entry)
    IN  Len(s) >= 1 /\ s[1] = "."

FileSystem(r, f, u) == [root |-> r, files |-> f, unreadable |-> u]

IsDir(fs, p) == fs.root = "dir" /\ (p = VaultRoot \/ p \in SubDirs)

\* Path::is_file(): the path names an existing regular file.
is_file(fs, p) ==
    \/ p = VaultRoot /\ fs.root = "file"
    \/ p \in DOMAIN fs.files

EntryExists(fs, p) == IsDir(fs, p) \/ is_file(fs, p)

OkEntry(p) == [ok |-> TRUE, path |-> p]
ErrEntry   == [ok |-> FALSE, path |-> <<>>]

\* WalkDir::new(..).into_iter().filter_entry(|e| !is_hidden(e)): the items the
\* iterator yields, depth first.  A filtered entry is skipped with its whole
\* subtree; a directory that cannot be listed yields itself and then an error.
RECURSIVE WalkEntry(_, _), WalkList(_, _)
\* WalkEntry as it would be with filter in place of filter_entry: a hidden
\* entry is not yielded but a hidden directory is still descended into.
WalkEntry_no_prune(fs, e) ==
    (IF is_hidden(e) THEN <<>> ELSE <<OkEntry(e)>>) \o
    (IF IsDir(fs, e)
     THEN IF e \in fs.unreadable THEN <<ErrEntry>>
          ELSE WalkList(fs, ReadDir(e))
     ELSE <<>>)

WalkEntry(fs, e) ==
    IF is_hidden(e) THEN <<>>
    ELSE <<OkEntry(e)>> \o
         (IF IsDir(fs, e)
          THEN IF e \in fs.unreadable THEN <<ErrEntry>>
               ELSE WalkList(fs, ReadDir(e))
          ELSE <<>>)

WalkList(fs, s) ==
    IF s = <<>> THEN <<>>
    ELSE (IF EntryExists(fs, Head(s)) THEN WalkEntry(fs, Head(s)) ELSE <<>>)
         \o WalkList(fs, Tail(s))

\* A start path that names nothing yields one error.
WalkDir(fs, vault_path) ==
    IF ~EntryExists(fs, vault_path) THEN <<ErrEntry>> ELSE WalkEntry(fs, vault_path)

\* The body of traverse_vault's for loop over the yielded items.
RECURSIVE TraverseLoop(_, _, _)
TraverseLoop(fs, items, acc) ==
    IF items = <<>> THEN [ok |-> TRUE, files |-> acc]
    ELSE IF ~Head(items).ok THEN [ok |-> FALSE, files |-> <<>>]
    ELSE IF ~is_file(fs, Head(items).path) THEN TraverseLoop(fs, Tail(items), acc)
    ELSE TraverseLoop(fs, Tail(items), Append(acc, Head(items).path))

traverse_vault(fs, vault_path) == TraverseLoop(fs, WalkDir(fs, vault_path), <<>>)

----------------------------------------------------------------------------
\* data.rs: the front-matter extractor.

\* Option<T>: None is the empty set, Some(x) the set holding x.
None == {}
Some(x) == {x}

\* str::trim on the lines the model uses.
Trim(l) == IF l = " --- " THEN "---" ELSE IF l = "  " THEN "" ELSE l

IsBlank(s) == \A i \in 1..Len(s) : Trim(s[i]) = ""

\* serde_yaml::from_str::<FrontMatter>: every non-blank line must be a mapping
\* entry of the struct; anything else is a parse error.
YamlKey(l) ==
    IF l = "title: Alpha" THEN "title"
    ELSE IF l = "title: Beta" THEN "title"
    ELSE IF l = "tags: [x]" THEN "tags"
    ELSE IF Trim(l) = "" THEN "blank"
    ELSE "invalid"

YamlTitle(l) == IF l = "title: Alpha" THEN <<"A", "l", "p", "h", "a">> ELSE <<"B", "e", "t", "a">>

FrontMatterDefault ==
    [title |-> None, github |-> None, created |-> None, tags |-> None, authors |-> None]

from_str(yaml) ==
    IF \E i \in 1..Len(yaml) : YamlKey(yaml[i]) = "invalid"
    THEN [ok |-> FALSE, data |-> FrontMatterDefault]
    ELSE [ok |-> TRUE,
          data |-> [title   |-> IF \E i \in 1..Len(yaml) : YamlKey(yaml[i]) = "title"
                                THEN Some(YamlTitle(yaml[CHOOSE i \in 1..Len(yaml) :
                                                    YamlKey(yaml[i]) = "title"]))
                                ELSE None,
                    github  |-> None,
                    created |-> None,
                    tags    |-> IF \E i \in 1..Len(yaml) : YamlKey(yaml[i]) = "tags"
                                THEN Some(<<"x">>) ELSE None,
                    authors |-> None]]

\* Index of the closing delimiter among lines 2.., or 0 when there is none.
ClosingLine(lines) ==
    IF \E i \in 2..Len(lines) : Trim(lines[i]) = "---"
    THEN CHOOSE i \in 2..Len(lines) :
            /\ Trim(lines[i]) = "---"
            /\ \A j \in 2..(i - 1) : Trim(lines[j]) # "---"
    ELSE 0

file_stem(path) == file_name(path)

\* parse_yaml_front_matter from the first line on, for an opened file.
\* res is "Err", or "Ok" with fm an Option<FrontMatter>.
FrontMatterOf(file_path, content) ==
    IF Len(content) = 0 \/ Trim(content[1]) # "---" THEN [res |-> "Ok", fm |-> None]
    ELSE IF ClosingLine(content) = 0 THEN [res |-> "Err", fm |-> None]
    ELSE LET yaml_content == SubSeq(content, 2, ClosingLine(content) - 1)
             parsed == from_str(yaml_content)
         IN  IF IsBlank(yaml_content) THEN [res |-> "Ok", fm |-> None]
             ELSE IF ~parsed.ok THEN [res |-> "Err", fm |-> None]
             ELSE [res |-> "Ok",
                   fm  |-> Some(IF parsed.data.title = None
                                THEN [parsed.data EXCEPT
                                          !.title = Some(file_stem(file_path))]
                                ELSE parsed.data)]

\* A path that names no file cannot be opened.
parse_yaml_front_matter(fs, file_path) ==
    IF file_path \notin DOMAIN fs.files THEN [res |-> "Err", fm |-> None]
    ELSE FrontMatterOf(file_path, fs.files[file_path])

----------------------------------------------------------------------------
\* path_expander.rs (and its copies in config.rs and util.rs): tilde expansion.
\* A path is [utf8, s]: whether its bytes are valid UTF-8, and its characters.
\* The HOME variable is [st, val]: st is "unset", "notunicode" or "ok".

PathOf(str) == [utf8 |-> TRUE, s |-> str]

\* Path::to_str
to_str(path) == IF path.utf8 THEN Some(path.s) ELSE None

\* env::var("HOME").ok().map(PathBuf::from): env::var fails for a variable
\* that is not set and for one whose value is not valid Unicode.
get_home_dir(home) == IF home.st = "ok" THEN Some(PathOf(home.val)) ELSE None

\* PathBuf::push on Unix: an absolute argument replaces the path; otherwise a
\* separator is added unless the path is empty or ends with one.
push(base, rem) ==
    IF Len(rem) >= 1 /\ rem[1] = "/" THEN PathOf(rem)
    ELSE IF Len(base.s) >= 1 /\ base.s[Len(base.s)] # "/"
    THEN PathOf(base.s \o <<"/">> \o rem)
    ELSE PathOf(base.s \o rem)

starts_with(str, prefix) ==
    Len(str) >= Len(prefix) /\ SubSeq(str, 1, Len(prefix)) = prefix

\* expand_tilde as it would be if it tested for a leading "~" alone.
expand_tilde_any_tilde(input_path, home) ==
    IF to_str(input_path) = None THEN Some(input_path)
    ELSE LET path_str == input_path.s
         IN  IF path_str = <<"~">>
             THEN get_home_dir(home)
             ELSE IF starts_with(path_str, <<"~">>)
             THEN {push(home_dir, SubSeq(path_str, 3, Len(path_str))) :
                      home_dir \in get_home_dir(home)}
             ELSE Some(input_path)

expand_tilde(input_path, home) ==
    IF to_str(input_path) = None THEN Some(input_path)
    ELSE LET path_str == input_path.s
         IN  IF path_str = <<"~">>
             THEN get_home_dir(home)
             ELSE IF starts_with(path_str, <<"~", "/">>)
             THEN {push(home_dir, SubSeq(path_str, 3, Len(path_str))) :
                      home_dir \in get_home_dir(home)}
             ELSE Some(input_path)

----------------------------------------------------------------------------
\* data.rs: the cache operations.  Each takes the caching database and gives
\* back the database it leaves behind.

exists_in_cache(c, entry) == TRUE

add_to_cache(c, entry) == [ok |-> TRUE, cache |-> c]

remove_from_cache(c) == c

update_in_cache(c, entry) == [ok |-> TRUE, cache |-> c]

\* invalidate_cache's for loop: st is [ok, cache, ops], ops the calls made.
RECURSIVE InvalidateLoop(_, _)
InvalidateLoop(st, nds) ==
    IF nds = <<>> \/ ~st.ok THEN st
    ELSE LET node == Head(nds)
             add  == ~exists_in_cache(st.cache, node)
             r    == IF add THEN add_to_cache(st.cache, node)
                     ELSE update_in_cache(st.cache, node)
         IN  InvalidateLoop(
                 [ok    |-> r.ok,
                  cache |-> r.cache,
                  ops   |-> Append(st.ops, [op   |-> IF add THEN "add" ELSE "update",
                                            node |-> node])],
                 Tail(nds))

invalidate_cache(c, nds) == InvalidateLoop([ok |-> TRUE, cache |-> c, ops |-> <<>>], nds)

----------------------------------------------------------------------------
\* main.rs: the notifications and the callbacks.  A logged line is a record;
\* a callback takes the caching database and the event and gives back the
\* database it leaves behind and the lines it logged.

Ev(k, m, ps) == [kind |-> k, mk |-> m, paths |-> ps]
NoEvent == Ev("-", "-", <<>>)
OkItem(e) == [ok |-> TRUE, event |-> e]
ErrItem == [ok |-> FALSE, event |-> NoEvent]

Line(lvl, m, k, pth) == [level |-> lvl, msg |-> m, n |-> k, path |-> pth]

PathLines(m, ps) == [i \in 1..Len(ps) |-> Line("info", m, 0, ps[i])]

create_callback(c, event) ==
    [cache |-> c,
     lines |-> <<Line("info", "--- Create Event ---", 0, <<>>),
                 Line("info", "Paths involved", Len(event.paths), <<>>)>>
               \o PathLines("-> Created", event.paths)]

\* modify_callback as it would be with a rename that relocates the record of
\* paths[0] to paths[1] without checking that paths[0] has one.
modify_callback_relocate(c, event) ==
    LET from == SubSeq(event.paths[1], Len(VaultRoot) + 1, Len(event.paths[1]))
        to   == SubSeq(event.paths[2], Len(VaultRoot) + 1, Len(event.paths[2]))
    IN
    [cache |-> IF event.kind = "Modify" /\ event.mk = "Name" /\ Len(event.paths) = 2
               THEN IF from \in DOMAIN c
                    THEN [k \in (DOMAIN c \ {from}) \cup {to} |->
                             IF k = to THEN [c[from] EXCEPT !.identity = to] ELSE c[k]]
                    ELSE [k \in DOMAIN c \ {to} |-> c[k]]
               ELSE c,
     lines |-> <<Line("info", "--- Modify Event ---", 0, <<>>)>>]

\* modify_callback as it would be without the two-path branch: a rename is
\* logged as two unrelated modified parts.
modify_callback_parts(c, event) ==
    [cache |-> c,
     lines |-> <<Line("info", "--- Modify Event ---", 0, <<>>),
                 Line("info", "Paths involved", Len(event.paths), <<>>)>>
               \o (IF event.kind = "Modify" /\ event.mk = "Name"
                   THEN PathLines("-> Modified Part", event.paths)
                   ELSE PathLines("-> Edited", event.paths))]

modify_callback(c, event) ==
    [cache |-> c,
     lines |-> <<Line("info", "--- Modify Event ---", 0, <<>>),
                 Line("info", "Paths involved", Len(event.paths), <<>>)>>
               \o (IF event.kind = "Modify" /\ event.mk = "Name"
                   THEN IF Len(event.paths) = 2
                        THEN <<Line("info", "-> Renamed/Moved From", 0, event.paths[1]),
                               Line("info", "-> Renamed/Moved To", 0, event.paths[2])>>
                        ELSE PathLines("-> Modified Part", event.paths)
                   ELSE PathLines("-> Edited", event.paths))]

remove_callback(c, event) ==
    [cache |-> c,
     lines |-> <<Line("info", "--- Remove Event ---", 0, <<>>),
                 Line("info", "Paths involved", Len(event.paths), <<>>)>>
               \o PathLines("-> Removed", event.paths)]

\* recv as it would be over a stack: the newest item comes first.
recv_newest(ch) == [item |-> ch[Len(ch)], rest |-> SubSeq(ch, 1, Len(ch) - 1)]

\* rx as an iterator: the next item is the one that has waited longest.
recv(ch) == [item |-> Head(ch), rest |-> Tail(ch)]

\* WatchIteration as it would be if the Modify arm matched data changes only.
WatchIteration_data_only(c, item) ==
    IF item.ok
    THEN IF item.event.kind = "Create"
         THEN [handler |-> "create_callback"] @@ create_callback(c, item.event)
         ELSE IF item.event.kind = "Remove"
         THEN [handler |-> "remove_callback"] @@ remove_callback(c, item.event)
         ELSE IF item.event.kind = "Modify" /\ item.event.mk = "Data"
         THEN [handler |-> "modify_callback"] @@ modify_callback(c, item.event)
         ELSE [handler |-> "-", cache |-> c, lines |-> <<>>]
    ELSE [handler |-> "-", cache |-> c,
          lines |-> <<Line("error", "Error", 0, <<>>)>>]

\* One iteration of watch's for loop: the match on the received item.
WatchIteration(c, item) ==
    IF item.ok
    THEN IF item.event.kind = "Create"
         THEN [handler |-> "create_callback"] @@ create_callback(c, item.event)
         ELSE IF item.event.kind = "Remove"
         THEN [handler |-> "remove_callback"] @@ remove_callback(c, item.event)
         ELSE IF item.event.kind = "Modify"
         THEN [handler |-> "modify_callback"] @@ modify_callback(c, item.event)
         ELSE [handler |-> "-", cache |-> c, lines |-> <<>>]
    ELSE [handler |-> "-", cache |-> c,
          lines |-> <<Line("error", "Error", 0, <<>>)>>]

----------------------------------------------------------------------------
\* The states the engine can start in.

\* The identity key of a path: the path relative to the vault root.
relative_path(p) == SubSeq(p, Len(VaultRoot) + 1, Len(p))

\* The change token of a path: the content it holds, None when there is no file.
TokenOf(f, p) == IF p \in DOMAIN f THEN Some(f[p]) ELSE None

Record(p, content) ==
    [identity |-> relative_path(p),
     token    |-> Some(content),
     metadata |-> FrontMatterOf(p, content).fm]

InitContents(p) ==
    IF p = P_a THEN {Plain, Good}
    ELSE IF p = P_sb THEN {Unclosed}
    ELSE {Plain}

InitFiles ==
    UNION {{f \in [D -> Contents] : \A p \in D : f[p] \in InitContents(p)} :
           D \in SUBSET FilePaths}

\* What an earlier session left in the caching database.
InitCached(p) ==
    IF p = P_a THEN {Good}
    ELSE IF p = P_sb THEN {Plain}
    ELSE {}

InitCaches ==
    UNION {{[k \in {relative_path(p) : p \in D} |->
                Record(VaultRoot \o k, g[VaultRoot \o k])] :
            g \in {h \in [D -> Contents] : \A p \in D : h[p] \in InitCached(p)}} :
           D \in SUBSET {P_a, P_sb}}

NoLast(c) ==
    [n |-> 0, item |-> [ok |-> FALSE, event |-> NoEvent, seq |-> 0],
     tok |-> <<>>, handler |-> "-",
     repeat |-> FALSE,
     cacheBefore |-> c, extractBefore |-> 0]

NoCall == [fn |-> "-"]

Init ==
    /\ call = NoCall
    /\ root \in {"dir", "file", "missing"}
    /\ files \in IF root = "dir" THEN InitFiles ELSE {<<>>}
    /\ cache \in InitCaches
    /\ extractCalls = 0
    /\ pc = "start"
    /\ nodes = <<>>
    /\ ops = <<>>
    /\ chan = <<>>
    /\ sent = 0
    /\ closed = FALSE
    /\ log = <<>>
    /\ result = "-"
    /\ last = NoLast(cache)

----------------------------------------------------------------------------
\* The engine.

\* data.rs traverse_vault, called on the vault root.  u: the directories whose
\* listing fails (permission denied) when the walk reads them.
TraverseVault ==
    /\ pc = "start"
    /\ \E u \in IF root = "dir" THEN SUBSET {P_s} ELSE {{}} :
       LET r == traverse_vault(FileSystem(root, files, u), VaultRoot)
       IN  /\ nodes' = r.files
           /\ pc' = IF r.ok THEN "walked" ELSE "failed"
           /\ result' = IF r.ok THEN result ELSE "Err"
    /\ UNCHANGED <<call, root, files, cache, extractCalls, ops, chan, sent,
                   closed, log, last>>

\* data.rs invalidate_cache, called on the walk's result.
InvalidateCache ==
    /\ pc = "walked"
    /\ LET r == invalidate_cache(cache, nodes)
       IN  /\ cache' = r.cache
           /\ ops' = r.ops
           /\ pc' = IF r.ok THEN "reconciled" ELSE "failed"
           /\ result' = IF r.ok THEN result ELSE "Err"
    /\ UNCHANGED <<call, root, files, extractCalls, nodes, chan, sent,
                   closed, log, last>>

\* main.rs watch, up to the loop: the channel, the existence check, the watch.
WatchSetup ==
    /\ pc \in {"start", "reconciled"}
    /\ pc' = IF root = "missing" THEN "failed" ELSE "watching"
    /\ result' = IF root = "missing" THEN "Err" ELSE result
    /\ UNCHANGED <<call, root, files, cache, extractCalls, nodes, ops, chan,
                   sent, closed, log, last>>

\* main.rs watch: one iteration of `for res in rx`.
Recv ==
    /\ pc = "watching"
    /\ chan # <<>>
    /\ LET item == recv(chan).item
           r    == WatchIteration(cache, item)
       IN  /\ cache' = r.cache
           /\ log' = r.lines
           /\ last' = [n |-> last.n + 1,
                       item |-> item,
                       tok |-> [i \in 1..Len(item.event.paths) |->
                                   TokenOf(files, item.event.paths[i])],
                       handler |-> r.handler,
                       repeat |-> /\ last.n >= 1
                                  /\ item.ok = last.item.ok
                                  /\ item.event = last.item.event
                                  /\ [i \in 1..Len(item.event.paths) |->
                                         TokenOf(files, item.event.paths[i])] = last.tok,
                       cacheBefore |-> cache,
                       extractBefore |-> extractCalls]
    /\ chan' = recv(chan).rest
    /\ UNCHANGED <<call, root, files, extractCalls, pc, nodes, ops, sent,
                   closed, result>>

\* main.rs watch: the channel is closed and drained, the loop ends, Ok(()).
LoopEnd ==
    /\ pc = "watching"
    /\ chan = <<>>
    /\ closed
    /\ pc' = "returned"
    /\ result' = "Ok"
    /\ UNCHANGED <<call, root, files, cache, extractCalls, nodes, ops, chan,
                   sent, closed, log, last>>

----------------------------------------------------------------------------
\* The watched file system and the watcher thread that reports on it.

CanSend == pc = "watching" /\ ~closed /\ sent < MaxEvents

\* The item goes to the back of the channel; seq numbers the items in the
\* order the watcher thread sent them.
Send(item) ==
    /\ chan' = Append(chan, [ok |-> item.ok, event |-> item.event, seq |-> sent + 1])
    /\ sent' = sent + 1

Quiet == UNCHANGED <<call, root, cache, extractCalls, pc, nodes, ops,
                     closed, log, result, last>>

FsCreate ==
    /\ CanSend
    /\ \E p \in FilePaths \ DOMAIN files, c \in Written :
        /\ files' = [q \in DOMAIN files \cup {p} |-> IF q = p THEN c ELSE files[q]]
        /\ Send(OkItem(Ev("Create", "-", <<p>>)))
    /\ Quiet

FsModify ==
    /\ CanSend
    /\ \E p \in DOMAIN files, m \in {"Data", "Metadata"} :
       \E c \in IF m = "Data" THEN Written \ {files[p]} ELSE {files[p]} :
        /\ files' = [files EXCEPT ![p] = c]
        /\ Send(OkItem(Ev("Modify", m, <<p>>)))
    /\ Quiet

FsRemove ==
    /\ CanSend
    /\ \E p \in DOMAIN files :
        /\ files' = [q \in DOMAIN files \ {p} |-> files[q]]
        /\ Send(OkItem(Ev("Remove", "-", <<p>>)))
    /\ Quiet

FsRename ==
    /\ CanSend
    /\ \E p \in DOMAIN files, q \in FilePaths \ DOMAIN files :
        /\ files' = [x \in (DOMAIN files \ {p}) \cup {q} |->
                        IF x = q THEN files[p] ELSE files[x]]
        /\ Send(OkItem(Ev("Modify", "Name", <<p, q>>)))
    /\ Quiet

FsAccess ==
    /\ CanSend
    /\ \E p \in DOMAIN files \cap {P_a, P_h} : Send(OkItem(Ev("Access", "-", <<p>>)))
    /\ UNCHANGED files
    /\ Quiet

\* The source reports an error of its own.
NotifyError ==
    /\ CanSend
    /\ Send(ErrItem)
    /\ UNCHANGED files
    /\ Quiet

\* A noisy source delivers the notification it sent last once more.
NotifyAgain ==
    /\ CanSend
    /\ chan # <<>>
    /\ Send(chan[Len(chan)])
    /\ UNCHANGED files
    /\ Quiet

\* The sending half is dropped: the backend of the watcher is gone.
Close ==
    /\ pc = "watching"
    /\ ~closed
    /\ closed' = TRUE
    /\ UNCHANGED <<call, root, files, cache, extractCalls, pc, nodes, ops,
                   chan, sent, log, result, last>>

Next ==
    \/ TraverseVault
    \/ InvalidateCache
    \/ WatchSetup
    \/ Recv
    \/ LoopEnd
    \/ FsCreate
    \/ FsModify
    \/ FsRemove
    \/ FsRename
    \/ FsAccess
    \/ NotifyError
    \/ NotifyAgain
    \/ Close

Spec == Init /\ [][Next]_vars

----------------------------------------------------------------------------
\* The library functions called on their own.

\* The engine when it is not run.
EngineIdle ==
    /\ root = "dir"
    /\ files = <<>>
    /\ cache = <<>>
    /\ extractCalls = 0
    /\ pc = "start"
    /\ nodes = <<>>
    /\ ops = <<>>
    /\ chan = <<>>
    /\ sent = 0
    /\ closed = FALSE
    /\ log = <<>>
    /\ result = "-"
    /\ last = NoLast(<<>>)

EngineUnchanged ==
    UNCHANGED <<root, files, cache, extractCalls, pc, nodes, ops, chan, sent,
                closed, log, result, last>>

TildeInputs ==
    {PathOf(str) : str \in {<<"~">>, <<"~", "/", "D">>, <<"~", "/">>,
                            <<"~", "/", "/", "x">>, <<"~", "x">>, <<"~", "~">>,
                            <<".", "c">>, <<"/", "a">>, <<"a", "/", "~">>, <<>>}}
    \cup {[utf8 |-> FALSE, s |-> str] : str \in {<<"~">>, <<"~", "/", "D">>, <<"x">>}}

Homes ==
    {[st |-> "unset", val |-> <<>>], [st |-> "notunicode", val |-> <<>>]}
    \cup {[st |-> "ok", val |-> v] : v \in {<<"/", "h">>, <<"/", "h", "/">>, <<"h">>, <<>>}}

InitTilde ==
    /\ EngineIdle
    /\ call \in {[fn |-> "expand_tilde", input |-> i, home |-> h,
                  done |-> FALSE, out |-> None] : i \in TildeInputs, h \in Homes}

ExpandTilde ==
    /\ call.fn = "expand_tilde"
    /\ ~call.done
    /\ call' = [call EXCEPT !.done = TRUE, !.out = expand_tilde(call.input, call.home)]
    /\ EngineUnchanged

NextTilde == ExpandTilde

SpecTilde == InitTilde /\ [][NextTilde]_vars

WalkStarts == {VaultRoot, P_s, P_g, P_a, P_h}

WalkSystems ==
    {FileSystem("dir", [p \in D |-> Plain], u) :
        D \in SUBSET FilePaths, u \in SUBSET {VaultRoot, P_s, P_g}}
    \cup {FileSystem(r, <<>>, {}) : r \in {"file", "missing"}}

InitWalk ==
    /\ EngineIdle
    /\ call \in {[fn |-> "traverse_vault", fs |-> f, path |-> p, done |-> FALSE,
                  out |-> [ok |-> TRUE, files |-> <<>>]] :
                 f \in WalkSystems, p \in WalkStarts}

CallTraverseVault ==
    /\ call.fn = "traverse_vault"
    /\ ~call.done
    /\ call' = [call EXCEPT !.done = TRUE, !.out = traverse_vault(call.fs, call.path)]
    /\ EngineUnchanged

NextWalk == CallTraverseVault

SpecWalk == InitWalk /\ [][NextWalk]_vars

----------------------------------------------------------------------------
\* The properties.

\* A path the hidden-file exclusion covers: a name below the vault root begins
\* with the marker.
Excluded(p) == \E i \in (Len(VaultRoot) + 1)..Len(p) : Len(p[i]) >= 1 /\ p[i][1] = "."

OutsideVault(p) == Len(p) <= Len(VaultRoot) \/ SubSeq(p, 1, Len(VaultRoot)) # VaultRoot

PresentKeys == {relative_path(p) : p \in {q \in DOMAIN files : ~Excluded(q)}}

WalkedKeys == {relative_path(nodes[i]) : i \in 1..Len(nodes)}

Handled == last.n >= 1 /\ last.item.ok

HandledPaths == last.item.event.paths

\* C1: once traverse_vault and invalidate_cache have completed successfully,
\* the key set of the index is exactly the set of relative paths of the
\* non-excluded files under the vault root.
C1_Completeness == pc = "reconciled" => DOMAIN cache = PresentKeys

\* C2: after the startup walk every index key that the walk did not observe
\* has been removed.
C2_StaleKeysRemoved == pc = "reconciled" => DOMAIN cache \subseteq WalkedKeys

\* C3: in the walk's pass over the discovered files, a file whose key is absent
\* from the index takes the add path and is in the index afterwards, a file
\* whose key is present takes the update path; none with an absent key is
\* routed to the update path.
C3_LookupRouting ==
    [][(pc = "walked" /\ pc' = "reconciled") =>
         /\ Len(ops') = Len(nodes)
         /\ \A i \in 1..Len(ops') :
               LET k == relative_path(ops'[i].node)
               IN  /\ ops'[i].node = nodes[i]
                   /\ ops'[i].op = "update" => k \in DOMAIN cache
                   /\ k \notin DOMAIN cache => ops'[i].op = "add" /\ k \in DOMAIN cache'
      ]_vars

\* C4: for a key already indexed, a Created/Modified event (or the walk) whose
\* change token equals the stored one issues no extraction call and leaves the
\* record as it was; one whose token differs issues exactly one extraction
\* call and replaces the record.
C4_TokenStaleness ==
    /\ (/\ Handled
        /\ \/ last.item.event.kind = "Create"
           \/ last.item.event.kind = "Modify" /\ last.item.event.mk # "Name"
        /\ Len(HandledPaths) = 1
        /\ relative_path(HandledPaths[1]) \in DOMAIN last.cacheBefore
        /\ last.tok[1] # None)
       => LET p == HandledPaths[1]
              k == relative_path(p)
          IN  IF last.tok[1] = last.cacheBefore[k].token
              THEN extractCalls = last.extractBefore /\ cache = last.cacheBefore
              ELSE /\ extractCalls = last.extractBefore + 1
                   /\ k \in DOMAIN cache
                   /\ cache[k].token = last.tok[1]
    /\ pc = "reconciled"
       => \A i \in 1..Len(nodes) :
             LET k == relative_path(nodes[i])
             IN  k \in DOMAIN last.cacheBefore
                 => /\ k \in DOMAIN cache
                    /\ cache[k].token = TokenOf(files, nodes[i])
                    /\ TokenOf(files, nodes[i]) = last.cacheBefore[k].token
                       => cache[k] = last.cacheBefore[k]

\* C5: after a Removed(p) change has been handled the index has no entry for
\* p, whatever it held before.
C5_RemovalUnconditional ==
    (Handled /\ last.item.event.kind = "Remove")
    => \A i \in 1..Len(HandledPaths) : relative_path(HandledPaths[i]) \notin DOMAIN cache

\* C6: after Renamed{a,b} with unchanged content the index has no entry for a,
\* the entry for b carries the metadata and the token a had, and no
\* extraction call was issued.
C6_RenamePreserves ==
    (/\ Handled
     /\ last.item.event.kind = "Modify" /\ last.item.event.mk = "Name"
     /\ Len(HandledPaths) = 2
     /\ relative_path(HandledPaths[1]) \in DOMAIN last.cacheBefore
     /\ last.tok[2] = last.cacheBefore[relative_path(HandledPaths[1])].token)
    => LET a == relative_path(HandledPaths[1])
           b == relative_path(HandledPaths[2])
       IN  /\ a \notin DOMAIN cache
           /\ b \in DOMAIN cache
           /\ cache[b].metadata = last.cacheBefore[a].metadata
           /\ cache[b].token = last.cacheBefore[a].token
           /\ extractCalls = last.extractBefore

CanonicalChange(e) == e.kind \in {"Create", "Remove", "Modify"}

\* C7: handling the same change (Created, Modified, Removed or Renamed) a
\* second time in a row, with the same tokens, leaves the index as the first
\* handling left it.
C7_Idempotence ==
    [][(/\ last'.n = last.n + 1
        /\ last'.repeat
        /\ last'.item.ok
        /\ CanonicalChange(last'.item.event))
       => cache' = cache]_vars

\* Witness of C7: a two-path rename of an indexed file has just been handled
\* for the second time in a row.
C7_Witness ==
    /\ Handled
    /\ last.repeat
    /\ last.item.event.kind = "Modify" /\ last.item.event.mk = "Name"
    /\ Len(HandledPaths) = 2
    /\ relative_path(HandledPaths[1]) \in DOMAIN last.cacheBefore

\* C8: an event with a path outside the vault root or with a name beginning
\* with '.' is dropped: no create/modify/remove handling is done for it.
C8_ExcludedDropped ==
    (Handled /\ \E i \in 1..Len(HandledPaths) :
                    Excluded(HandledPaths[i]) \/ OutsideVault(HandledPaths[i]))
    => last.handler = "-" /\ log = <<>>

ExtractionFails(p) ==
    parse_yaml_front_matter(FileSystem(root, files, {}), p).res = "Err"

\* C9: a file whose front matter is malformed stays indexed with metadata None
\* and a warning; the failure neither removes it from the index nor stops the
\* processing of the other files or events.
C9_ExtractionFailureKept ==
    /\ pc = "reconciled"
       => /\ Len(ops) = Len(nodes)
          /\ \A i \in 1..Len(nodes) :
                ExtractionFails(nodes[i])
                => /\ relative_path(nodes[i]) \in DOMAIN cache
                   /\ cache[relative_path(nodes[i])].metadata = None
    /\ (/\ Handled
        /\ last.item.event.kind \in {"Create", "Modify"}
        /\ Len(HandledPaths) = 1
        /\ ~Excluded(HandledPaths[1])
        /\ HandledPaths[1] \in DOMAIN files
        /\ ExtractionFails(HandledPaths[1]))
       => /\ relative_path(HandledPaths[1]) \in DOMAIN cache
          /\ cache[relative_path(HandledPaths[1])].metadata = None
          /\ pc \in {"watching", "returned"}

\* C10: when the notification channel is closed the event loop ends and the
\* closure reaches the caller as an error, not as a successful return.
C10_StreamEndFatal == (pc = "returned" /\ closed) => result = "Err"

\* C11: the engine moves Uninitialized -> Walking -> Ready -> Stopped only:
\* the loop is entered, and items are received, only after the startup walk
\* and its pass over the index have completed, and nothing writes the index
\* once the engine has stopped.
C11_Lifecycle ==
    [][/\ pc' # pc =>
            <<pc, pc'>> \in {<<"start", "walked">>, <<"walked", "reconciled">>,
                             <<"reconciled", "watching">>, <<"watching", "returned">>,
                             <<"start", "failed">>, <<"walked", "failed">>,
                             <<"reconciled", "failed">>}
       /\ last'.n # last.n => pc = "watching" /\ ops # <<>>
       /\ pc \in {"returned", "failed"} => cache' = cache /\ pc' = pc
      ]_vars

\* C12: the items are handled in the order the watcher thread sent them, so any
\* two changes for the same path are handled in arrival order; no item is lost
\* or handled twice, and what an iteration logs concerns its own item only.
C12_ArrivalOrder ==
    /\ last.n >= 1 => last.item.seq = last.n
    /\ \A i \in 1..Len(chan) : chan[i].seq = last.n + i
    /\ sent = last.n + Len(chan)
    /\ \A i \in 1..Len(log) :
          \/ log[i].path = <<>>
          \/ \E j \in 1..Len(HandledPaths) : log[i].path = HandledPaths[j]

\* Witness of C12: a second change for the same path has been handled after
\* the first, while the watcher thread was still allowed to send.
C12_Witness ==
    /\ last.n = 2
    /\ last.item.ok
    /\ last.repeat
    /\ last.item.seq = 2
    /\ Len(HandledPaths) = 1

\* C13: when the vault root does not exist or is not a directory the engine
\* fails with an error before a watch is registered or an item is received.
C13_InvalidRootFailsFast ==
    root # "dir" => /\ pc \notin {"watching", "returned"}
                    /\ last.n = 0
                    /\ pc = "failed" => result = "Err"

TildeForm(p) == p.utf8 /\ (p.s = <<"~">> \/ starts_with(p.s, <<"~", "/">>))

\* The home directory joined with a remainder, as Path::join defines it.
Joined(home_str, rem) ==
    IF rem # <<>> /\ rem[1] = "/" THEN rem
    ELSE IF home_str = <<>> \/ home_str[Len(home_str)] = "/" THEN home_str \o rem
    ELSE home_str \o <<"/">> \o rem

TildeCases(homeKnown) ==
    call.fn = "expand_tilde" /\ call.done =>
        /\ (TildeForm(call.input) /\ call.input.s = <<"~">> /\ call.home.st = "ok")
           => call.out = {PathOf(call.home.val)}
        /\ (TildeForm(call.input) /\ call.input.s # <<"~">> /\ call.home.st = "ok")
           => call.out = {PathOf(Joined(call.home.val,
                                        SubSeq(call.input.s, 3, Len(call.input.s))))}
        /\ ~TildeForm(call.input) => call.out = {call.input}
        /\ call.out = {} <=> (TildeForm(call.input) /\ ~homeKnown)

\* C14 as stated: expand_tilde gives the home directory for "~", the home
\* directory joined with the remainder for "~/...", the input for every other
\* path, and None exactly when the input is "~" or starts with "~/" and the
\* home variable is unset.
C14_ExpandTilde_Unset == TildeCases(call.home.st # "unset")

\* C14 as amended: the same, with None exactly when the input is "~" or starts
\* with "~/" and the home directory cannot be determined: the home variable is
\* unset or its value is not valid Unicode.
C14_ExpandTilde == TildeCases(call.home.st = "ok")

\* Witness of C14: "~/D" has been expanded under a known home directory.
C14_Witness ==
    /\ call.fn = "expand_tilde" /\ call.done
    /\ call.input = PathOf(<<"~", "/", "D">>)
    /\ call.home = [st |-> "ok", val |-> <<"/", "h">>]
    /\ call.out = {PathOf(<<"/", "h", "/", "D">>)}

LinesWith(m) == {i \in 1..Len(log) : log[i].msg = m}

NameHidden(name) == Len(name) >= 1 /\ name[1] = "."

\* p is reached from start through names none of which begins with '.', the
\* name of start itself included.
ReachedVisibly(start, p) ==
    /\ starts_with(p, start)
    /\ \A i \in Len(start)..Len(p) : ~NameHidden(p[i])

RegularFiles(fs) == DOMAIN fs.files \cup (IF fs.root = "file" THEN {VaultRoot} ELSE {})

Directories(fs) == IF fs.root = "dir" THEN {VaultRoot} \cup SubDirs ELSE {}

WalkErrs(fs, start) ==
    \/ start \notin RegularFiles(fs) \cup Directories(fs)
    \/ \E d \in Directories(fs) \cap fs.unreadable : ReachedVisibly(start, d)

HandlerFor(e) ==
    IF e.kind = "Create" THEN "create_callback"
    ELSE IF e.kind = "Remove" THEN "remove_callback"
    ELSE IF e.kind = "Modify" THEN "modify_callback"
    ELSE "-"

HeaderOf(h) ==
    IF h = "create_callback" THEN "--- Create Event ---"
    ELSE IF h = "remove_callback" THEN "--- Remove Event ---"
    ELSE "--- Modify Event ---"

Headers == {"--- Create Event ---", "--- Remove Event ---", "--- Modify Event ---"}

\* C17: each received item goes to at most one handler, chosen by its kind
\* (Create, Remove, any Modify; every other kind is ignored); an Err item is
\* logged and the loop goes on; the loop ends only when the channel is closed.
C17_WatchLoop ==
    /\ last.n >= 1 =>
          IF last.item.ok
          THEN /\ last.handler = HandlerFor(last.item.event)
               /\ last.handler = "-" => log = <<>>
               /\ last.handler # "-" =>
                     /\ {i \in 1..Len(log) : log[i].msg \in Headers} = {1}
                     /\ log[1].msg = HeaderOf(last.handler)
                     /\ \A i \in 1..Len(log) : log[i].level = "info"
          ELSE /\ last.handler = "-"
               /\ Len(log) = 1
               /\ log[1].level = "error"
    /\ pc = "returned" => closed /\ chan = <<>>
    /\ (last.n >= 1 /\ ~closed) => pc = "watching"

\* Witness of C17: an Err item has been logged and the loop is still running
\* with another item waiting.
C17_Witness ==
    /\ last.n >= 1
    /\ ~last.item.ok
    /\ Len(log) = 1
    /\ pc = "watching"
    /\ chan # <<>>

====
